---- MODULE Spec2Model ----
(***************************************************************************)
(* Model of svm.py: load_climate_data, split_data, train_and_evaluate and  *)
(* main.  Python floats are IEEE-754 binary64; the arithmetic of           *)
(* int(n_samples * (1 - test_size)) is modelled bit for bit (53-bit        *)
(* significand, round to nearest, ties to even).                           *)
(***************************************************************************)
EXTENDS Integers, Sequences, FiniteSets

(***************************************************************************)
(* Bounds of the model.                                                    *)
(***************************************************************************)
MaxRows == 10
MaxCols == 4
MaxExp == 55

(***************************************************************************)
(* Program constants.                                                      *)
(***************************************************************************)
\* significand width of a Python float (binary64)
Precision == 53

(***************************************************************************)
(* Binary floating point.  A non-negative dyadic number is a record        *)
(* [bits, frac]: bits is its binary numeral, most significant bit first,   *)
(* and the last frac bits are behind the binary point.                     *)
(***************************************************************************)
\* the numeral without its leading zeros
StripZeros(bits) ==
    LET ones == {i \in 1..Len(bits) : bits[i] = 1}
    IN IF ones = {} THEN << >>
       ELSE SubSeq(bits, CHOOSE i \in ones : \A j \in ones : i <= j, Len(bits))

Zeros(k) == [i \in 1..k |-> 0]

RECURSIVE BitsToInt(_)
BitsToInt(bits) ==
    IF bits = << >> THEN 0
    ELSE 2 * BitsToInt(SubSeq(bits, 1, Len(bits) - 1)) + bits[Len(bits)]

RECURSIVE IntToBits(_)
IntToBits(k) == IF k = 0 THEN << >> ELSE IntToBits(k \div 2) \o <<k % 2>>

\* bits + 1, as a numeral one bit longer when the carry runs out of the top
Inc(bits) ==
    LET zeros == {i \in 1..Len(bits) : bits[i] = 0}
    IN IF zeros = {} THEN <<1>> \o Zeros(Len(bits))
       ELSE LET last == CHOOSE i \in zeros : \A j \in zeros : j <= i
            IN [i \in 1..Len(bits) |->
                   IF i < last THEN bits[i] ELSE IF i = last THEN 1 ELSE 0]

\* Round an exact value (sticky: a non-zero remainder lies below the last
\* bit) to Precision significant bits, nearest, ties to even.
RoundToFloat(bits, frac, sticky) ==
    LET b == StripZeros(bits)
        drop == Len(b) - Precision
    IN IF drop <= 0
       THEN [bits |-> b, frac |-> frac]
       ELSE LET keep == SubSeq(b, 1, Precision)
                guard == b[Precision + 1]
                st == sticky \/ (\E i \in (Precision + 2)..Len(b) : b[i] = 1)
                up == guard = 1 /\ (st \/ keep[Precision] = 1)
            IN [bits |-> IF up THEN Inc(keep) ELSE keep, frac |-> frac - drop]

\* 2^m modulo q
RECURSIVE Pow2Mod(_, _)
Pow2Mod(m, q) ==
    IF m = 0 THEN 1 % q
    ELSE LET h == Pow2Mod(m \div 2, q)
         IN (h * h * (IF m % 2 = 1 THEN 2 ELSE 1)) % q

\* what is left of r/q after m bits of its binary expansion (0 <= r < q)
Remainder(r, q, m) == (r * Pow2Mod(m, q)) % q

\* the first m bits of the binary expansion of r/q (0 <= r < q)
Expand(r, q, m) ==
    [i \in 1..m |-> IF 2 * Remainder(r, q, i - 1) >= q THEN 1 ELSE 0]

\* number of zero bits between the binary point and the first one of r/q
RECURSIVE LeadingZeros(_, _)
LeadingZeros(r, q) == IF 2 * r >= q THEN 0 ELSE 1 + LeadingZeros(2 * r, q)

\* The float a literal denotes: the binary64 nearest to (p/q) * 2^-k,
\* for 0 < p < q.
ToFloat(t) ==
    LET m == LeadingZeros(t.p, t.q) + Precision + 1
        r == RoundToFloat(Expand(t.p, t.q, m), m,
                          Remainder(t.p, t.q, m) # 0)
    IN [bits |-> r.bits, frac |-> r.frac + t.k]

\* 1 - x in float arithmetic, for a float 0 < x < 1
OneMinus(x) ==
    LET padded == Zeros(x.frac - Len(x.bits)) \o x.bits
        inverted == [i \in 1..Len(padded) |-> 1 - padded[i]]
        diff == Inc(inverted)
    IN RoundToFloat(IF Len(diff) > Len(padded) THEN Tail(diff) ELSE diff,
                    x.frac, FALSE)

\* the carry out of bits lo..hi-1 (counted from the least significant, 0)
\* of bits * n, given the carry into bit lo
RECURSIVE CarryOut(_, _, _, _, _)
CarryOut(bits, n, lo, hi, cin) ==
    IF hi <= lo THEN cin
    ELSE IF hi = lo + 1 THEN (bits[Len(bits) - lo] * n + cin) \div 2
    ELSE LET mid == (lo + hi) \div 2
             c1 == CarryOut(bits, n, lo, mid, cin)
         IN IF c1 >= 0 THEN CarryOut(bits, n, mid, hi, c1) ELSE 0

\* the carry into bit i of bits * n
Carry(bits, n, i) == CarryOut(bits, n, 0, i, 0)

\* bits * n for a small natural n
MulBits(bits, n) ==
    LET L == Len(bits)
        c == [i \in 0..L |-> Carry(bits, n, i)]
    IN IntToBits(c[L]) \o [j \in 1..L |-> (bits[j] * n + c[L - j]) % 2]

\* n * x in float arithmetic, n an int converted to float
Times(n, x) == RoundToFloat(MulBits(x.bits, n), x.frac, FALSE)

\* int(x): truncation of a non-negative float
Truncate(x) ==
    IF Len(x.bits) <= x.frac THEN 0
    ELSE BitsToInt(SubSeq(x.bits, 1, Len(x.bits) - x.frac))

(***************************************************************************)
(* numpy arrays: a shape and the elements in row-major order.              *)
(***************************************************************************)
RECURSIVE Product(_)
Product(shape) == IF shape = << >> THEN 1 ELSE Head(shape) * Product(Tail(shape))

Min(a, b) == IF a <= b THEN a ELSE b
Max(a, b) == IF a >= b THEN a ELSE b

\* where a slice bound k falls on an axis of length n
Clip(k, n) == IF k < 0 THEN Max(n + k, 0) ELSE Min(k, n)

NoArray == [dtype |-> "none", shape |-> << >>, values |-> << >>]

\* a[:k]
RowsTo(a, k) ==
    LET stride == Product(Tail(a.shape))
        hi == Clip(k, a.shape[1])
    IN [dtype |-> a.dtype, shape |-> <<hi>> \o Tail(a.shape),
        values |-> SubSeq(a.values, 1, hi * stride)]

\* a[k:]
RowsFrom(a, k) ==
    LET stride == Product(Tail(a.shape))
        lo == Clip(k, a.shape[1])
    IN [dtype |-> a.dtype, shape |-> <<a.shape[1] - lo>> \o Tail(a.shape),
        values |-> SubSeq(a.values, lo * stride + 1, a.shape[1] * stride)]

\* a[:, :k], for an array of two or more dimensions
ColsTo(a, k) ==
    LET n == a.shape[1]
        c == a.shape[2]
        rest == Tail(Tail(a.shape))
        d == Product(rest)
        w == Clip(k, c)
    IN [dtype |-> a.dtype, shape |-> <<n, w>> \o rest,
        values |-> [j \in 1..(n * w * d) |->
            a.values[((j - 1) \div (w * d)) * c * d + ((j - 1) % (w * d)) + 1]]]

\* a[:, -1], for an array of two or more dimensions with a column
LastCol(a) ==
    LET n == a.shape[1]
        c == a.shape[2]
        rest == Tail(Tail(a.shape))
        d == Product(rest)
    IN [dtype |-> a.dtype, shape |-> <<n>> \o rest,
        values |-> [j \in 1..(n * d) |->
            a.values[((j - 1) \div d) * c * d + (c - 1) * d + ((j - 1) % d) + 1]]]

(***************************************************************************)
(* load_climate_data(data_path).  A file holds one named array.            *)
(***************************************************************************)
\* a[:, k], for an array of two or more dimensions with more than k columns
ColAt(a, k) ==
    LET n == a.shape[1]
        c == a.shape[2]
        rest == Tail(Tail(a.shape))
        d == Product(rest)
    IN [dtype |-> a.dtype, shape |-> <<n>> \o rest,
        values |-> [j \in 1..(n * d) |->
            a.values[((j - 1) \div d) * c * d + k * d + ((j - 1) % d) + 1]]]

\* variant: the label is the third column, not the last
load_climate_data_thirdColumn(f) ==
    IF ~f.readable
    THEN [raised |-> "OSError", features |-> NoArray, labels |-> NoArray]
    ELSE IF f.field # "var"
    THEN [raised |-> "KeyError", features |-> NoArray, labels |-> NoArray]
    ELSE LET climate_data == f.array
         IN IF Len(climate_data.shape) < 2 \/ climate_data.shape[2] < 3
            THEN [raised |-> "IndexError", features |-> NoArray,
                  labels |-> NoArray]
            ELSE [raised |-> "none",
                  features |-> ColsTo(climate_data, 2),
                  labels |-> ColAt(climate_data, 2)]

load_climate_data(f) ==
    IF ~f.readable
    THEN [raised |-> "OSError", features |-> NoArray, labels |-> NoArray]
    ELSE IF f.field # "var"
    THEN [raised |-> "KeyError", features |-> NoArray, labels |-> NoArray]
    ELSE LET climate_data == f.array
         IN IF Len(climate_data.shape) < 2 \/ climate_data.shape[2] = 0
            THEN [raised |-> "IndexError", features |-> NoArray,
                  labels |-> NoArray]
            ELSE [raised |-> "none",
                  features |-> ColsTo(climate_data, 2),
                  labels |-> LastCol(climate_data)]

(***************************************************************************)
(* split_data(features, labels, test_size)                                 *)
(***************************************************************************)
\* test_size=0.2
DefaultTestSize == [p |-> 1, q |-> 5, k |-> 0]

\* split_idx = int(n_samples * (1 - test_size))
SplitIdx(n_samples, ts) ==
    Truncate(Times(n_samples, OneMinus(ToFloat(ts))))

\* variant: the test partition starts one row late
split_data_dropsRow(X, y, ts) ==
    LET n_samples == X.shape[1]
        idx == SplitIdx(n_samples, ts)
    IN [raised |-> "none", split_idx |-> idx,
        X_train |-> RowsTo(X, idx), X_test |-> RowsFrom(X, idx + 1),
        y_train |-> RowsTo(y, idx), y_test |-> RowsFrom(y, idx + 1)]

\* variant: the labels are cut one row after the features
split_data_shiftsLabels(X, y, ts) ==
    LET n_samples == X.shape[1]
        idx == SplitIdx(n_samples, ts)
    IN [raised |-> "none", split_idx |-> idx,
        X_train |-> RowsTo(X, idx), X_test |-> RowsFrom(X, idx),
        y_train |-> RowsTo(y, idx + 1), y_test |-> RowsFrom(y, idx + 1)]

\* variant: an empty partition is rejected
split_data_rejectsEmpty(X, y, ts) ==
    LET n_samples == X.shape[1]
        idx == SplitIdx(n_samples, ts)
    IN IF idx = 0 \/ idx = n_samples
       THEN [raised |-> "ValueError", split_idx |-> idx,
             X_train |-> NoArray, X_test |-> NoArray,
             y_train |-> NoArray, y_test |-> NoArray]
       ELSE [raised |-> "none", split_idx |-> idx,
             X_train |-> RowsTo(X, idx), X_test |-> RowsFrom(X, idx),
             y_train |-> RowsTo(y, idx), y_test |-> RowsFrom(y, idx)]

split_data(X, y, ts) ==
    LET n_samples == X.shape[1]
        idx == SplitIdx(n_samples, ts)
    IN [raised |-> "none", split_idx |-> idx,
        X_train |-> RowsTo(X, idx), X_test |-> RowsFrom(X, idx),
        y_train |-> RowsTo(y, idx), y_test |-> RowsFrom(y, idx)]

(***************************************************************************)
(* The classifier library, as far as the program depends on it: fit and    *)
(* score may raise on any input (no device), and raise on these inputs.    *)
(***************************************************************************)
FitMustRaise(X, y) ==
    \/ X.shape[1] = 0
    \/ Cardinality({y.values[i] : i \in 1..Len(y.values)}) < 2

ScoreMustRaise(X, y) == X.shape[1] = 0

(***************************************************************************)
(* Inputs.                                                                 *)
(***************************************************************************)
LabelPatterns == {"same", "alt", "id"}

Label(pat, i) == IF pat = "same" THEN 1 ELSE IF pat = "alt" THEN i % 2 ELSE i

\* element (i, j), counted from 0, of a generated n x c matrix
Cell(c, pat, mid, i, j) ==
    IF j = c - 1 THEN Label(pat, i)
    ELSE IF j >= 2 THEN 100 * mid + 10 * (i + 1) + j
    ELSE 10 * (i + 1) + j

Matrix(n, c, pat, mid) ==
    [dtype |-> "float64", shape |-> <<n, c>>,
     values |-> [e \in 1..(n * c) |->
                    Cell(c, pat, mid, (e - 1) \div c, (e - 1) % c)]]

Matrices ==
    {Matrix(n, c, pat, mid) :
        n \in 0..MaxRows, c \in 1..MaxCols, pat \in LabelPatterns, mid \in {0, 1}}

OddArrays ==
    { [dtype |-> "float64", shape |-> <<2, 3, 2>>,
       values |-> [e \in 1..12 |-> e]],
      [dtype |-> "float64", shape |-> <<3, 0>>, values |-> << >>],
      [dtype |-> "object", shape |-> <<2, 3>>, values |-> [e \in 1..6 |-> e % 2]],
      [dtype |-> "str", shape |-> <<1>>, values |-> <<7>>] }

Files ==
    {[readable |-> TRUE, field |-> "var", array |-> a] : a \in Matrices \cup OddArrays}
    \cup {[readable |-> TRUE, field |-> "data", array |-> Matrix(4, 3, "alt", 0)],
          [readable |-> FALSE, field |-> "var", array |-> NoArray]}

\* test sizes (p/q) * 2^-k
TestSizes ==
    {[p |-> a, q |-> 10, k |-> 0] : a \in 1..9}
    \cup {[p |-> a, q |-> 4, k |-> 0] : a \in {1, 3}}
    \cup {[p |-> a, q |-> 3, k |-> 0] : a \in {1, 2}}
    \cup {[p |-> 1, q |-> 2, k |-> e] : e \in (MaxExp - 3)..MaxExp}

(***************************************************************************)
(* State.                                                                  *)
(***************************************************************************)
VARIABLES pc, file, test_size, features, labels, split_idx,
          X_train, X_test, y_train, y_test, model, stdout, raised, trace

vars == <<pc, file, test_size, features, labels, split_idx,
          X_train, X_test, y_train, y_test, model, stdout, raised, trace>>

splitVars == <<split_idx, X_train, X_test, y_train, y_test>>

Blank ==
    /\ features = NoArray /\ labels = NoArray
    /\ split_idx = 0
    /\ X_train = NoArray /\ X_test = NoArray
    /\ y_train = NoArray /\ y_test = NoArray
    /\ model = "none" /\ stdout = << >> /\ raised = "none" /\ trace = << >>

\* python svm.py
Init ==
    /\ pc = "main57"
    /\ file \in Files
    /\ test_size = DefaultTestSize
    /\ Blank

\* a caller of load_climate_data, split_data and train_and_evaluate
InitFn ==
    /\ pc = "call_load"
    /\ file \in Files
    /\ test_size \in TestSizes
    /\ Blank

WriteLine(line, next) ==
    /\ stdout' = Append(stdout, line)
    /\ pc' = next
    /\ UNCHANGED <<file, test_size, features, labels, splitVars, model,
                   raised, trace>>

DoLoad(next) ==
    \E r \in {load_climate_data(file)} :
       /\ trace' = Append(trace, "load")
       /\ raised' = r.raised
       /\ features' = r.features
       /\ labels' = r.labels
       /\ pc' = IF r.raised = "none" THEN next ELSE "failed"
       /\ UNCHANGED <<file, test_size, splitVars, model, stdout>>

DoSplit(ts, next) ==
    \E r \in {split_data(features, labels, ts)} :
       /\ trace' = Append(trace, "split")
       /\ raised' = r.raised
       /\ pc' = IF r.raised = "none" THEN next ELSE "failed"
       /\ IF r.raised = "none"
          THEN /\ split_idx' = r.split_idx
               /\ X_train' = r.X_train /\ X_test' = r.X_test
               /\ y_train' = r.y_train /\ y_test' = r.y_test
          ELSE UNCHANGED splitVars
       /\ UNCHANGED <<file, test_size, features, labels, model, stdout>>

(***************************************************************************)
(* main()                                                                  *)
(***************************************************************************)
Main57 == pc = "main57" /\ WriteLine("Loading climate data...", "main58")
Main58 == pc = "main58" /\ DoLoad("main60")
Main60 == pc = "main60" /\ WriteLine("Splitting dataset...", "main61")
Main61 == pc = "main61" /\ DoSplit(DefaultTestSize, "main63")
Main63 == pc = "main63" /\ WriteLine("Training SVM model...", "tae41")

main == Main57 \/ Main58 \/ Main60 \/ Main61 \/ Main63

(***************************************************************************)
(* Direct calls of the functions                                           *)
(***************************************************************************)
CallLoad == pc = "call_load" /\ DoLoad("call_split")
CallSplit == pc = "call_split" /\ DoSplit(test_size, "tae41")

(***************************************************************************)
(* train_and_evaluate(X_train, X_test, y_train, y_test)                    *)
(***************************************************************************)
\* variant: a failed fit is tried again
Fit_retries ==
    /\ pc = "tae41"
    /\ trace' = Append(trace, "fit")
    /\ \E ok \in BOOLEAN :
          /\ ok => ~FitMustRaise(X_train, y_train)
          /\ model' = IF ok THEN "fitted" ELSE model
          /\ raised' = IF ok THEN "none" ELSE "FitError"
          /\ pc' = IF ok THEN "tae43" ELSE "tae41"
    /\ UNCHANGED <<file, test_size, features, labels, splitVars, stdout>>

Fit ==
    /\ pc = "tae41"
    /\ trace' = Append(trace, "fit")
    /\ \E ok \in BOOLEAN :
          /\ ok => ~FitMustRaise(X_train, y_train)
          /\ model' = IF ok THEN "fitted" ELSE model
          /\ raised' = IF ok THEN "none" ELSE "FitError"
          /\ pc' = IF ok THEN "tae43" ELSE "failed"
    /\ UNCHANGED <<file, test_size, features, labels, splitVars, stdout>>

Line43 == pc = "tae43" /\ WriteLine("Model Coefficients:", "tae44")
Line44 == pc = "tae44" /\ WriteLine("Precipitation coef", "tae45")

\* model.coef_[0][1]: one coefficient per feature column
Line45 ==
    /\ pc = "tae45"
    /\ IF X_train.shape[2] >= 2
       THEN WriteLine("Temperature coef", "tae46")
       ELSE /\ raised' = "IndexError"
            /\ pc' = "failed"
            /\ UNCHANGED <<file, test_size, features, labels, splitVars,
                           model, stdout, trace>>

Line46 == pc = "tae46" /\ WriteLine("Intercept", "tae48")

\* variant: a failed score still reports an accuracy
Score_reportsOnFailure ==
    /\ pc = "tae48"
    /\ trace' = Append(trace, "score")
    /\ \E ok \in BOOLEAN :
          /\ ok => ~ScoreMustRaise(X_test, y_test)
          /\ raised' = IF ok THEN "none" ELSE "ScoreError"
          /\ pc' = IF ok THEN "tae49" ELSE "failed"
          /\ stdout' = IF ok THEN stdout ELSE Append(stdout, "Test Accuracy")
    /\ UNCHANGED <<file, test_size, features, labels, splitVars, model>>

Score ==
    /\ pc = "tae48"
    /\ trace' = Append(trace, "score")
    /\ \E ok \in BOOLEAN :
          /\ ok => ~ScoreMustRaise(X_test, y_test)
          /\ raised' = IF ok THEN "none" ELSE "ScoreError"
          /\ pc' = IF ok THEN "tae49" ELSE "failed"
    /\ UNCHANGED <<file, test_size, features, labels, splitVars, model, stdout>>

Line49 == pc = "tae49" /\ WriteLine("Test Accuracy", "done")

train_and_evaluate ==
    Fit \/ Line43 \/ Line44 \/ Line45 \/ Line46 \/ Score \/ Line49

Next == main \/ train_and_evaluate
Spec == Init /\ [][Next]_vars

NextFn == CallLoad \/ CallSplit \/ train_and_evaluate
SpecFn == InitFn /\ [][NextFn]_vars

(***************************************************************************)
(* Vocabulary of the properties.                                           *)
(***************************************************************************)
Did(stage) == \E i \in 1..Len(trace) : trace[i] = stage

LastStage == IF trace = << >> THEN "none" ELSE trace[Len(trace)]

Printed(line) == \E i \in 1..Len(stdout) : stdout[i] = line

IsPrefix(s, t) == Len(s) <= Len(t) /\ s = SubSeq(t, 1, Len(s))

Rows(a) == a.shape[1]

\* row i (from 1) of an array: its elements in order
Row(a, i) ==
    LET stride == Product(Tail(a.shape))
    IN SubSeq(a.values, (i - 1) * stride + 1, i * stride)

\* element j (from 1) of row i (from 1) of an array of two or more dimensions
Entry(a, i, j) ==
    LET d == Product(Tail(Tail(a.shape)))
        at == ((i - 1) * a.shape[2] + (j - 1)) * d
    IN SubSeq(a.values, at + 1, at + d)

\* the first two columns, and the last column, of row i of the source array
SourceFeatures(a, i) ==
    IF a.shape[2] >= 2 THEN Entry(a, i, 1) \o Entry(a, i, 2) ELSE Entry(a, i, 1)

SourceLabel(a, i) == Entry(a, i, a.shape[2])

\* floor(n * (1 - test_size)) over the rationals, for test_size =
\* (p/q) * 2^-k with n * p < 2^20
ExactFloor(n, ts) ==
    IF n = 0 THEN 0
    ELSE IF ts.k > 20 THEN n - 1
    ELSE n - ((n * ts.p + ts.q * 2^ts.k - 1) \div (ts.q * 2^ts.k))

\* n * (1 - test_size) < 1 over the rationals
ExactBelowOne(n, ts) ==
    IF ts.k > 20 THEN n <= 1
    ELSE n * (ts.q * 2^ts.k - ts.p) < ts.q * 2^ts.k

StageOrder == <<"load", "split", "fit", "score">>

FullOutput ==
    <<"Loading climate data...", "Splitting dataset...",
      "Training SVM model...", "Model Coefficients:", "Precipitation coef",
      "Temperature coef", "Intercept", "Test Accuracy">>

Numeric2D(a) == a.dtype = "float64" /\ Len(a.shape) = 2

(***************************************************************************)
(* C1: after split_data on n rows, split_idx = floor(n * (1 - test_size)), *)
(* the train arrays have split_idx rows and the test arrays n - split_idx. *)
(***************************************************************************)
C1_SplitIndexIsFloor ==
    Did("split") =>
        /\ split_idx = ExactFloor(Rows(features), test_size)
        /\ Rows(X_train) = split_idx /\ Rows(y_train) = split_idx
        /\ Rows(X_test) = Rows(features) - split_idx
        /\ Rows(y_test) = Rows(features) - split_idx

(***************************************************************************)
(* C2: split_data returns an order-preserving partition: train is the      *)
(* prefix [0, split_idx) and test the suffix [split_idx, n) of both the    *)
(* features and the labels; train followed by test is the input.           *)
(***************************************************************************)
C2_OrderPreservingPartition ==
    Did("split") =>
        /\ Rows(X_train) + Rows(X_test) = Rows(features)
        /\ Rows(y_train) + Rows(y_test) = Rows(labels)
        /\ X_train.values \o X_test.values = features.values
        /\ y_train.values \o y_test.values = labels.values
        /\ Rows(X_train) = split_idx /\ Rows(y_train) = split_idx
        /\ \A i \in 1..Rows(X_train) : Row(X_train, i) = Row(features, i)
        /\ \A i \in 1..Rows(y_train) : Row(y_train, i) = Row(labels, i)
        /\ \A j \in 1..Rows(X_test) :
              Row(X_test, j) = Row(features, split_idx + j)
        /\ \A j \in 1..Rows(y_test) :
              Row(y_test, j) = Row(labels, split_idx + j)

C2_Witness ==
    /\ Did("split")
    /\ Rows(features) >= 5
    /\ 0 < split_idx /\ split_idx < Rows(features)

(***************************************************************************)
(* C3: after load_climate_data and split_data, row i of X_train and of     *)
(* y_train come from row i of the source array, and row j of X_test and of *)
(* y_test from row split_idx + j; both are cut at the same index.          *)
(***************************************************************************)
C3_FeatureLabelAlignment ==
    Did("split") =>
        /\ Rows(X_train) = Rows(y_train)
        /\ Rows(X_test) = Rows(y_test)
        /\ \A i \in 1..Rows(X_train) :
              /\ Row(X_train, i) = SourceFeatures(file.array, i)
              /\ Row(y_train, i) = SourceLabel(file.array, i)
        /\ \A j \in 1..Rows(X_test) :
              /\ Row(X_test, j) = SourceFeatures(file.array, split_idx + j)
              /\ Row(y_test, j) = SourceLabel(file.array, split_idx + j)

C3_Witness ==
    /\ Did("split")
    /\ file.array.shape[2] >= 3
    /\ Rows(X_train) >= 2 /\ Rows(X_test) >= 2
    /\ y_test.values[1] # y_test.values[2]

(***************************************************************************)
(* C4: for a source matrix of n rows and c >= 3 columns, the loader        *)
(* returns columns 0 and 1 as features (n x 2) and column c-1 as labels    *)
(* (length n), in row order; the middle columns do not matter.             *)
(***************************************************************************)
SameOuterColumns(a, b) ==
    /\ a.shape = b.shape
    /\ \A i \in 1..a.shape[1] :
          /\ SourceFeatures(a, i) = SourceFeatures(b, i)
          /\ SourceLabel(a, i) = SourceLabel(b, i)

C4_LoaderColumns ==
    (/\ Did("load") /\ file.readable /\ file.field = "var"
     /\ Numeric2D(file.array) /\ file.array.shape[2] >= 3) =>
        LET a == file.array
            n == a.shape[1]
        IN /\ features.shape = <<n, 2>>
           /\ labels.shape = <<n>>
           /\ \A i \in 1..n :
                 /\ Row(features, i) = Entry(a, i, 1) \o Entry(a, i, 2)
                 /\ Row(labels, i) = Entry(a, i, a.shape[2])
           /\ \A g \in Files :
                 (/\ g.readable /\ g.field = "var" /\ Numeric2D(g.array)
                  /\ g.array.shape[2] >= 3 /\ SameOuterColumns(a, g.array)) =>
                     /\ load_climate_data(g).features = features
                     /\ load_climate_data(g).labels = labels

C4_Witness ==
    /\ Did("load") /\ file.readable /\ file.field = "var"
    /\ Numeric2D(file.array)
    /\ file.array.shape[2] = 4 /\ file.array.shape[1] >= 2
    /\ features.shape = <<file.array.shape[1], 2>>
    /\ \E g \in Files :
          /\ g.array # file.array /\ g.field = "var" /\ g.readable
          /\ Numeric2D(g.array) /\ SameOuterColumns(file.array, g.array)

C6_LoaderRejectsMalformed ==
    (/\ Did("load") /\ file.readable
     /\ (file.field # "var" \/ ~Numeric2D(file.array))) =>
        /\ pc = "failed" /\ LastStage = "load"
        /\ features = NoArray /\ labels = NoArray

(***************************************************************************)
(* C7: split_data raises nothing on a degenerate partition: with           *)
(* split_idx = 0 train is empty and test is the whole input, with          *)
(* split_idx = n train is the whole input and test is empty; the run then  *)
(* fails only in train_and_evaluate (fit or score), and stops there.       *)
(***************************************************************************)
C7_DegenerateSplitAccepted ==
    /\ LastStage = "split" => pc # "failed"
    /\ (Did("split") /\ split_idx = 0) =>
          /\ Rows(X_train) = 0 /\ X_train.values = << >>
          /\ Rows(y_train) = 0 /\ y_train.values = << >>
          /\ X_test = features /\ y_test = labels
    /\ (Did("split") /\ split_idx = Rows(features)) =>
          /\ Rows(X_test) = 0 /\ X_test.values = << >>
          /\ Rows(y_test) = 0 /\ y_test.values = << >>
          /\ X_train = features /\ y_train = labels
    /\ (Did("split") /\ Rows(X_train) = 0) =>
          /\ model = "none" /\ pc \in {"tae41", "failed"}
          /\ pc = "failed" => LastStage = "fit" /\ raised = "FitError"
    /\ (Did("split") /\ Rows(X_test) = 0) =>
          /\ pc \notin {"tae49", "done"}
          /\ pc = "failed" => LastStage \in {"fit", "score"}
    /\ pc = "failed" => ~ENABLED NextFn

C7_Witness ==
    /\ pc = "failed" /\ raised = "ScoreError"
    /\ Rows(features) >= 2
    /\ split_idx = Rows(features)
    /\ X_train = features /\ Rows(X_test) = 0

(***************************************************************************)
(* C9, as written: the stages load, split, fit, score run at most once, in *)
(* this order, each only after the one before succeeded; the coefficient,  *)
(* intercept and accuracy lines are all printed after scoring; a failure   *)
(* ends the run.                                                           *)
(***************************************************************************)
LinearPass ==
    /\ IsPrefix(trace, StageOrder)
    /\ pc = "failed" => LastStage # "none"
    /\ Did("split") => features # NoArray
    /\ Did("fit") => X_train # NoArray
    /\ Did("score") => model = "fitted"

C10_SplitIndexBounds ==
    Did("split") =>
        LET n == Rows(features)
        IN /\ 0 <= split_idx /\ split_idx <= n
           /\ n >= 1 => split_idx < n
           /\ n >= 1 => Rows(X_test) >= 1
           /\ Rows(X_test) = 0 => n = 0
           /\ Rows(X_train) = 0 <=> ExactBelowOne(n, test_size)

====
